---- MODULE Spec2Model ----
(***************************************************************************)
(* metassert: a single-header assertion macro (src/include/metassert.h).   *)
(*                                                                         *)
(* METASSERT(expr) expands to                                              *)
(*     auto _expr_ = (metassert::Build()->*expr).GetExpression();          *)
(*     if (!_expr_) { stringstream << "\"" #expr "\"" << " (" << _expr_    *)
(*                    << ")";  AssertFail(str, __FILE__, __LINE__); }      *)
(*                                                                         *)
(* The model follows one test program that executes METASSERT statements   *)
(* one after another.  Each statement is run in the steps of its           *)
(* expansion: operator->* wraps the first operand in an ExpressionBuilder, *)
(* every captured operator enters operator##op (a local Expression node is *)
(* built) and returns from it (a builder referring to that node is         *)
(* returned and the node is destroyed), GetExpression() copies the         *)
(* referent of the last builder into _expr_, the full-expression ends      *)
(* (temporaries die), the node is tested, rendered and reported.           *)
(*                                                                         *)
(* Expression and ExpressionBuilder store REFERENCES.  The model keeps the *)
(* set of live objects; a read through a reference whose referent is no    *)
(* longer alive is undefined behaviour and is modelled as a                *)
(* nondeterministic choice: the stale contents, other contents, or (for a  *)
(* reference that was itself read from dead storage) a crash.              *)
(***************************************************************************)
EXTENDS Integers, Sequences, FiniteSets, TLC

\* ------------------------------------------------------------------ bounds
\* Operand values are drawn from 0..MaxVal.
MaxVal == 1
\* Size of the test program: the operators and literal operands written in all
\* of its METASSERT statements together.
MaxSize == 2
\* Number of METASSERT statements of the longest test program.
MaxChecks == 2

Val == 0..MaxVal

\* The test program of the header's documentation: main.cpp, first check on line 6.
File == "main.cpp"
FirstLine == 6

\* ---------------------------------------------------------- the operators
\* DEFINE_OPERATOR(op, name), one entry per use of the macro.
OperatorDefs ==
    << [op |-> "+",  name |-> "Add"],
       [op |-> "-",  name |-> "Subtract"],
       [op |-> "*",  name |-> "Multiply"],
       [op |-> "/",  name |-> "Divide"],
       [op |-> "==", name |-> "Equal"],
       [op |-> "!=", name |-> "NotEqual"],
       [op |-> "<",  name |-> "LessThan"],
       [op |-> "<=", name |-> "LessOrEqual"],
       [op |-> ">",  name |-> "GreaterThan"],
       [op |-> ">=", name |-> "GreaterOrEqual"] >>

OpTokens == {OperatorDefs[i].op : i \in DOMAIN OperatorDefs}

\* The entry of the macro use that defined functor `name`.
DefOf(name) == CHOOSE i \in DOMAIN OperatorDefs : OperatorDefs[i].name = name

\* Overload resolution of `builder op rhs`: the operator##op generated for `op`
\* builds an Expression whose Op is the functor of the same macro use.
OperatorOverload(op) ==
    OperatorDefs[CHOOSE i \in DOMAIN OperatorDefs : OperatorDefs[i].op = op].name

Abs(x) == IF x < 0 THEN 0 - x ELSE x

\* Integer division of the language: the quotient is truncated toward zero.
TruncDiv(a, b) ==
    IF (a < 0) = (b < 0) THEN Abs(a) \div Abs(b) ELSE 0 - (Abs(a) \div Abs(b))

Bool(p) == IF p THEN 1 ELSE 0

\* The built-in `a op b` on int operands (a comparison yields bool: 1 or 0).
Builtin(op, a, b) ==
    CASE op = "+"  -> a + b
      [] op = "-"  -> a - b
      [] op = "*"  -> a * b
      [] op = "/"  -> TruncDiv(a, b)
      [] op = "==" -> Bool(a = b)
      [] op = "!=" -> Bool(a # b)
      [] op = "<"  -> Bool(a < b)
      [] op = "<=" -> Bool(a <= b)
      [] op = ">"  -> Bool(a > b)
      [] op = ">=" -> Bool(a >= b)

\* `a op b` has a value (integer division by zero has none: the program stops).
BuiltinDefined(op, b) == ~(op = "/" /\ b = 0)

\* name::operator()(a, b): return a op b, with the op of the macro use.
Functor(name, a, b) == Builtin(OperatorDefs[DefOf(name)].op, a, b)

FunctorDefined(name, b) == BuiltinDefined(OperatorDefs[DefOf(name)].op, b)

\* A printer that writes the text of the wrong operator for one functor.
OpTextSwapped(name) ==
    IF name = "NotEqual" THEN "==" ELSE OperatorDefs[DefOf(name)].op

\* operator<<(std::ostream&, const name&): os << #op.
OpText(name) == OperatorDefs[DefOf(name)].op

\* Binding strength of the binary operators (larger binds tighter); all of them
\* bind looser than the ->* that METASSERT puts in front of the expression.
Prec(op) ==
    CASE op \in {"*", "/"}            -> 3
      [] op \in {"+", "-"}            -> 2
      [] op \in {"<", "<=", ">", ">="} -> 1
      [] op \in {"==", "!="}          -> 0

\* ------------------------------------------------- the asserted expression
\* What the author wrote inside METASSERT( ): one or two binary operators from
\* the table, applied left to right to operands named a, b, c; an operand is an
\* int variable or (lit) an int literal, with the value vals[i].
VarNames == <<"a", "b", "c">>

NoExpr == [ops |-> <<>>, vals |-> <<>>, lit |-> <<>>]

NumLits(w) == Cardinality({i \in DOMAIN w.lit : w.lit[i]})

\* In `Build()->*a op1 b op2 c` both operators are captured when op1 binds at
\* least as tightly as op2; otherwise `b op2 c` is an ordinary subexpression,
\* evaluated to a temporary that becomes the right operand of op1.
CapturesBoth(w) == Len(w.ops) = 2 /\ Prec(w.ops[1]) >= Prec(w.ops[2])

CapturesAll(w) == Len(w.ops) = 1 \/ CapturesBoth(w)

\* The functor types of the captured Expression nodes, innermost first.
CapOps(w) ==
    IF CapturesAll(w)
    THEN [i \in DOMAIN w.ops |-> OperatorOverload(w.ops[i])]
    ELSE << OperatorOverload(w.ops[1]) >>

\* The values of the operand objects the captured nodes refer to.
CapVals(w) ==
    IF CapturesAll(w)
    THEN w.vals
    ELSE << w.vals[1], Builtin(w.ops[2], w.vals[2], w.vals[3]) >>

\* Which of those operand objects are temporaries of the full-expression.
CapTemp(w) == IF CapturesAll(w) THEN w.lit ELSE << w.lit[1], TRUE >>

\* The value of the expression as the language evaluates it without METASSERT.
PlainDefined(w) ==
    IF Len(w.ops) = 1 THEN BuiltinDefined(w.ops[1], w.vals[2])
    ELSE IF CapturesBoth(w)
    THEN /\ BuiltinDefined(w.ops[1], w.vals[2])
         /\ BuiltinDefined(w.ops[2], w.vals[3])
    ELSE /\ BuiltinDefined(w.ops[2], w.vals[3])
         /\ BuiltinDefined(w.ops[1], Builtin(w.ops[2], w.vals[2], w.vals[3]))

PlainValue(w) ==
    IF Len(w.ops) = 1 THEN Builtin(w.ops[1], w.vals[1], w.vals[2])
    ELSE IF CapturesBoth(w)
    THEN Builtin(w.ops[2], Builtin(w.ops[1], w.vals[1], w.vals[2]), w.vals[3])
    ELSE Builtin(w.ops[1], w.vals[1], Builtin(w.ops[2], w.vals[2], w.vals[3]))

\* Conversion of the value to bool, as `if (...)` does.
PlainTrue(w) == PlainValue(w) # 0

OperandText(w, i) == IF w.lit[i] THEN ToString(w.vals[i]) ELSE VarNames[i]

\* #expr: the source text of the macro argument, tokens separated by one space.
SrcText(w) ==
    IF Len(w.ops) = 1
    THEN OperandText(w, 1) \o " " \o w.ops[1] \o " " \o OperandText(w, 2)
    ELSE OperandText(w, 1) \o " " \o w.ops[1] \o " " \o OperandText(w, 2)
         \o " " \o w.ops[2] \o " " \o OperandText(w, 3)

\* The expressions with n operators and at most `lits` literal operands.
ExprsOf(n, lits) ==
    { w \in [ops : [1..n -> OpTokens], vals : [1..(n+1) -> Val],
              lit : {f \in [1..(n+1) -> BOOLEAN] :
                        Cardinality({i \in 1..(n+1) : f[i]}) <= lits}] :
        \* the author asserts expressions that have a value
        PlainDefined(w) }

\* The expressions a program can still contain when `size` of it is left.
Written(size) ==
    UNION { ExprsOf(n, size - n) : n \in {m \in 1..2 : m <= size} }

\* ------------------------------------------------------------- the objects
OperandObj == <<"x1", "x2", "x3">>
NodeObj == <<"N1", "N2">>
BuilderObj == <<"B0", "B1", "B2">>

VARIABLES
    checks,     \* number of METASSERT statements of the test program
    stmt,       \* number of METASSERT statements completed, plus one
    pc,         \* position inside the expansion of the current statement
    cur,        \* the expression written in the current statement
    sizeUsed,   \* operators and literal operands written so far in the program
    live,       \* the objects of the current statement that are alive
    builder,    \* the latest ExpressionBuilder temporary: [at, ref]
    nodes,      \* storage of the Expression locals built so far: [lhs, rhs, op]
    copy,       \* what the copy-initialisation of _expr_ obtained
    result,     \* outcome of if (!_expr_)
    lastEval,   \* the operand values the test read and the value it computed
    applied,    \* how often each captured functor has been applied
    stream,     \* insertions made into _stream_
    stdout,     \* lines written to std::cout, each as its sequence of insertions
    deadReads,  \* objects that were read through a reference after their lifetime
    outAtBegin, \* std::cout as it was when the current statement began
    hist        \* for each completed statement: was its plain expression false

vars == << checks, stmt, pc, cur, sizeUsed, live, builder, nodes, copy, result,
           lastEval, applied, stream, stdout, deadReads, outAtBegin, hist >>

NoBuilder == [at |-> 0, ref |-> "none"]

\* __LINE__ of the current statement.
Line == FirstLine + stmt - 1

\* Everything but the length of the program.
InitStatement ==
    /\ stmt = 1
    /\ pc = "next"
    /\ cur = NoExpr
    /\ sizeUsed = 0
    /\ live = {}
    /\ builder = NoBuilder
    /\ nodes = <<>>
    /\ copy = "none"
    /\ result = "none"
    /\ lastEval = <<>>
    /\ applied = <<>>
    /\ stream = <<>>
    /\ stdout = <<>>
    /\ deadReads = {}
    /\ outAtBegin = <<>>
    /\ hist = <<>>

\* A test program with one METASSERT statement.
Init == checks = 1 /\ InitStatement

\* A test program with a sequence of METASSERT statements.
InitSeq == checks \in 1..MaxChecks /\ InitStatement

\* ------------------------------------------------- reads through references
\* ExpressionBuilder::GetExpression(): return m_lhs (the reference, not a copy).
GetExpression(b) == b.ref

\* Number of captured nodes of the current statement.
NumNodes == Len(CapOps(cur))

\* The temporaries of the full-expression on METASSERT's first line.
Temporaries ==
    {"Build"} \cup {BuilderObj[k] : k \in DOMAIN BuilderObj}
              \cup {OperandObj[i] : i \in {j \in DOMAIN CapTemp(cur) : CapTemp(cur)[j]}}

\* Is the reference to operand i a reference read from overwritten storage?
\* The references of the top node are those of _expr_ (overwritten when the
\* copy was); those of an inner node are read from that node's dead storage at
\* every use (innerOverwritten).
LeafWild(i, innerOverwritten) ==
    IF NumNodes = 2 /\ i <= 2 THEN innerOverwritten ELSE copy = "wild"

\* What reading operand i yields: through an overwritten reference anything;
\* through an intact one the operand's value while it is alive, and afterwards
\* whatever its storage holds (the old value or another one).
LeafReads(i, wild) ==
    IF wild THEN Val
    ELSE IF OperandObj[i] \in live THEN {CapVals(cur)[i]}
    ELSE Val \cup {CapVals(cur)[i]}

\* The operand values one traversal of _expr_ can read, as tuples.
Reads ==
    LET m == Len(CapVals(cur))
        univ == Val \cup {CapVals(cur)[i] : i \in 1..m}
        inner == IF NumNodes = 2 /\ copy = "intact" THEN BOOLEAN ELSE {copy = "wild"}
    IN  UNION { { t \in [1..m -> univ] :
                    \A i \in 1..m : t[i] \in LeafReads(i, LeafWild(i, io)) } :
                io \in inner }

\* Can a traversal of _expr_ dereference a reference that points nowhere?  An
\* inner node's references are re-read from dead storage at every traversal;
\* the references of _expr_ itself are fixed by the copy, so once the test has
\* read through them the rendering can too.
CanCrash(phase) ==
    IF NumNodes = 2 THEN TRUE ELSE copy = "wild" /\ phase = "test"

\* Objects a traversal of an intact _expr_ reads after their lifetime.
DeadAtTraversal ==
    IF copy = "wild" THEN {}
    ELSE ({OperandObj[i] : i \in DOMAIN CapVals(cur)}
          \cup {NodeObj[k] : k \in 1..(NumNodes - 1)}) \ live

\* Expression::operator ResultType(): m_op(m_lhs, m_rhs); an Expression operand
\* is converted (evaluated) first.  The two arguments of the top functor:
EvalArgs(t) ==
    IF NumNodes = 2
    THEN << Functor(CapOps(cur)[1], t[1], t[2]), t[3] >>
    ELSE << t[1], t[2] >>

EvalDefined(t) ==
    /\ NumNodes = 2 => FunctorDefined(CapOps(cur)[1], t[2])
    /\ FunctorDefined(CapOps(cur)[NumNodes], EvalArgs(t)[2])

EvalValue(t) == Functor(CapOps(cur)[NumNodes], EvalArgs(t)[1], EvalArgs(t)[2])

\* operator<<(std::ostream&, const Expression&) on the node of depth k:
\* stream << m_lhs << " " << m_op << " " << m_rhs, as the list of insertions.
RECURSIVE ExpressionText(_, _, _)
ExpressionText(ops, k, t) ==
    IF k = 0 THEN << ToString(t[1]) >>
    ELSE ExpressionText(ops, k - 1, t) \o << " ", OpText(ops[k]), " ", ToString(t[k + 1]) >>

\* std::stringstream::str(): the insertions, concatenated.
RECURSIVE Str(_)
Str(pieces) == IF pieces = <<>> THEN "" ELSE Head(pieces) \o Str(Tail(pieces))

\* METASSERT's second and third line of the failure branch.
Message(w, t) ==
    << "\"" \o SrcText(w) \o "\"", " (" >> \o ExpressionText(CapOps(w), Len(CapOps(w)), t) \o << ")" >>

\* AssertFail(msg, file, line): what is inserted into std::cout before std::endl.
AssertFail(msg, file, line) ==
    << "Failed: ", msg, ", in file ", file, " line ", ToString(line) >>

\* --------------------------------------------------------------- the steps
\* metassert::Build()->*lhs : operator->* returns ExpressionBuilder<Lhs>(lhs).
Begin ==
    /\ pc = "next"
    /\ stmt <= checks
    /\ \E w \in Written(MaxSize - sizeUsed) :
        /\ cur' = w
        /\ sizeUsed' = sizeUsed + Len(w.ops) + NumLits(w)
        /\ live' = {"Build", BuilderObj[1]} \cup {OperandObj[i] : i \in DOMAIN CapVals(w)}
        /\ applied' = [k \in DOMAIN CapOps(w) |-> 0]
    /\ builder' = [at |-> 0, ref |-> OperandObj[1]]
    /\ outAtBegin' = stdout
    /\ pc' = "build"
    /\ UNCHANGED << checks, stmt, nodes, copy, result, lastEval, stream, stdout, deadReads, hist >>

\* Entering operator##op(builder, rhs): the local
\*     Expression expr(builder.GetExpression(), rhs, name());
OperatorCall ==
    /\ pc = "build"
    /\ builder.at < NumNodes
    /\ LET k == builder.at + 1 IN
        /\ nodes' = Append(nodes, [lhs |-> GetExpression(builder),
                                   rhs |-> OperandObj[k + 1],
                                   op  |-> CapOps(cur)[k]])
        /\ live' = live \cup {NodeObj[k]}
    /\ pc' = "operator"
    /\ UNCHANGED << checks, stmt, cur, sizeUsed, builder, copy, result, lastEval,
                    applied, stream, stdout, deadReads, outAtBegin, hist >>

\* return ExpressionBuilder<...>(std::move(expr)): the builder's m_lhs is bound to
\* the local expr, whose lifetime ends with the return.
OperatorReturn ==
    /\ pc = "operator"
    /\ LET k == builder.at + 1 IN
        /\ builder' = [at |-> k, ref |-> NodeObj[k]]
        /\ live' = (live \ {NodeObj[k]}) \cup {BuilderObj[k + 1]}
    /\ pc' = "build"
    /\ UNCHANGED << checks, stmt, cur, sizeUsed, nodes, copy, result, lastEval,
                    applied, stream, stdout, deadReads, outAtBegin, hist >>

\* auto _expr_ = (...).GetExpression(): copy-initialisation from the referent of
\* the last builder's m_lhs.
CopyExpression ==
    /\ pc = "build"
    /\ builder.at = NumNodes
    /\ LET target == GetExpression(builder) IN
        /\ copy' \in (IF target \in live THEN {"intact"} ELSE {"intact", "wild"})
        /\ deadReads' = deadReads \cup ({target} \ live)
    /\ live' = live \cup {"_expr_"}
    /\ pc' = "copied"
    /\ UNCHANGED << checks, stmt, cur, sizeUsed, builder, nodes, result, lastEval,
                    applied, stream, stdout, outAtBegin, hist >>

\* The `;` of that line: the temporaries of the full-expression are destroyed.
EndFullExpression ==
    /\ pc = "copied"
    /\ live' = live \ Temporaries
    /\ builder' = NoBuilder
    /\ pc' = "test"
    /\ UNCHANGED << checks, stmt, cur, sizeUsed, nodes, copy, result, lastEval,
                    applied, stream, stdout, deadReads, outAtBegin, hist >>

\* !_expr_: the conversion of _expr_ to its value, one evaluation of the
\* captured nodes.
Test ==
    /\ pc = "test"
    /\ deadReads' = deadReads \cup DeadAtTraversal
    /\ \/ /\ CanCrash("test")
          /\ pc' = "crashed"
          /\ UNCHANGED << result, lastEval, applied >>
       \/ \E t \in Reads :
            IF EvalDefined(t)
            THEN /\ result' = IF EvalValue(t) = 0 THEN "fail" ELSE "pass"
                 /\ lastEval' = << t, EvalValue(t) >>
                 /\ applied' = [k \in DOMAIN applied |-> applied[k] + 1]
                 /\ pc' = "tested"
            ELSE /\ pc' = "crashed"
                 /\ UNCHANGED << result, lastEval, applied >>
    /\ UNCHANGED << checks, stmt, cur, sizeUsed, live, builder, nodes, copy,
                    stream, stdout, outAtBegin, hist >>

\* if (...): the failure branch is entered when the value converts to false.
Branch ==
    /\ pc = "tested"
    /\ pc' = IF result = "fail" THEN "render" ELSE "end"
    /\ lastEval' = <<>>
    /\ UNCHANGED << checks, stmt, cur, sizeUsed, live, builder, nodes, copy, result,
                    applied, stream, stdout, deadReads, outAtBegin, hist >>

\* A rendering that converts the node to its value again while printing it.
RenderReevaluating ==
    /\ pc = "render"
    /\ deadReads' = deadReads \cup DeadAtTraversal
    /\ \/ /\ CanCrash("render")
          /\ pc' = "crashed"
          /\ UNCHANGED << stream, applied >>
       \/ \E t \in Reads :
            /\ stream' = Message(cur, t)
            /\ applied' = [k \in DOMAIN applied |-> applied[k] + 1]
            /\ pc' = "rendered"
    /\ UNCHANGED << checks, stmt, cur, sizeUsed, live, builder, nodes, copy, result,
                    lastEval, stdout, outAtBegin, hist >>

\* std::stringstream _stream_; _stream_ << "\"" #expr "\"" << " (" << _expr_ << ")";
Render ==
    /\ pc = "render"
    /\ deadReads' = deadReads \cup DeadAtTraversal
    /\ \/ /\ CanCrash("render")
          /\ pc' = "crashed"
          /\ UNCHANGED stream
       \/ \E t \in Reads :
            /\ stream' = Message(cur, t)
            /\ pc' = "rendered"
    /\ UNCHANGED << checks, stmt, cur, sizeUsed, live, builder, nodes, copy, result,
                    lastEval, applied, stdout, outAtBegin, hist >>

\* metassert::AssertFail(_stream_.str(), __FILE__, __LINE__);
Report ==
    /\ pc = "rendered"
    /\ stdout' = Append(stdout, AssertFail(Str(stream), File, Line))
    /\ pc' = "end"
    /\ UNCHANGED << checks, stmt, cur, sizeUsed, live, builder, nodes, copy, result,
                    lastEval, applied, stream, deadReads, outAtBegin, hist >>

\* } while (0,0): the block is left and the next statement follows.
Continue ==
    /\ pc = "end"
    /\ hist' = Append(hist, ~PlainTrue(cur))
    /\ stmt' = stmt + 1
    /\ pc' = "next"
    /\ cur' = NoExpr
    /\ live' = {}
    /\ nodes' = <<>>
    /\ copy' = "none"
    /\ result' = "none"
    /\ applied' = <<>>
    /\ stream' = <<>>
    /\ deadReads' = {}
    /\ UNCHANGED << checks, sizeUsed, builder, lastEval, stdout, outAtBegin >>

Next ==
    \/ Begin
    \/ OperatorCall
    \/ OperatorReturn
    \/ CopyExpression
    \/ EndFullExpression
    \/ Test
    \/ Branch
    \/ Render
    \/ Report
    \/ Continue

Spec == Init /\ [][Next]_vars

SpecSeq == InitSeq /\ [][Next]_vars

\* ------------------------------------------------------------- properties
\* The text of one output line.
LineText(l) == Str(l)

\* The line a failing check of w on line n is to print, with the operand values
\* the program has at the statement.
Diagnostic(w, n) ==
    "Failed: \"" \o SrcText(w) \o "\" ("
    \o (IF CapturesBoth(w)
        THEN ToString(w.vals[1]) \o " " \o w.ops[1] \o " " \o ToString(w.vals[2])
             \o " " \o w.ops[2] \o " " \o ToString(w.vals[3])
        ELSE ToString(CapVals(w)[1]) \o " " \o w.ops[1] \o " " \o ToString(CapVals(w)[2]))
    \o "), in file " \o File \o " line " \o ToString(n)

\* The statement has been tested without the program stopping.
Tested == pc \in {"tested", "render", "rendered", "end"}

\* C1: a single-operator check whose expression is true writes nothing: from its
\* begin to its end std::cout stays as it was.
C1_TrueCheckWritesNothing ==
    (pc # "next" /\ Len(cur.ops) = 1 /\ PlainTrue(cur)) => stdout = outAtBegin

\* C2: when a == b is false, METASSERT(a == b) has appended exactly one line by
\* its end, and the line carries the values of a and b and the line number.
C2_FalseEqualityWritesOneLine ==
    (pc = "end" /\ cur.ops = << "==" >> /\ ~PlainTrue(cur)) =>
        /\ Len(stdout) = Len(outAtBegin) + 1
        /\ SubSeq(stdout, 1, Len(outAtBegin)) = outAtBegin
        /\ stdout[Len(stdout)][2] =
             "\"" \o SrcText(cur) \o "\" (" \o ToString(cur.vals[1]) \o " == "
             \o ToString(cur.vals[2]) \o ")"
        /\ stdout[Len(stdout)][6] = ToString(Line)

\* C3: the line written by a failing single-operator check is
\* Failed: "<source>" (<lhs> <op> <rhs>), in file <file> line <line>
\* with the values of the left and right operand.
C3_DiagnosticLayout ==
    (pc = "end" /\ Len(cur.ops) = 1 /\ result = "fail") =>
        LineText(stdout[Len(stdout)]) = Diagnostic(cur, Line)

\* C4: a failing check never stops the program: once the test has failed, the
\* program does not end before the next statement.
C4_FailureDoesNotStopProgram ==
    pc = "crashed" => result # "fail"

\* C5: the operator text rendered between the operands is the operator written
\* in the asserted expression, the value the test computes is that of the
\* written operators applied to the operands it read, and the rendered text is
\* the rendering of no other operator.
C5_OperatorTextAndOperation ==
    /\ (pc \in {"rendered", "end"} /\ result = "fail") =>
          \A k \in 1..NumNodes : stream[4 * k + 1] = cur.ops[k]
    /\ lastEval # <<>> =>
          lastEval[2] =
            (IF NumNodes = 2
             THEN Builtin(cur.ops[2],
                          Builtin(cur.ops[1], lastEval[1][1], lastEval[1][2]),
                          lastEval[1][3])
             ELSE Builtin(cur.ops[1], lastEval[1][1], lastEval[1][2]))
    /\ (pc = "rendered") =>
          \A k \in 1..NumNodes : \A j \in DOMAIN OperatorDefs :
             OpText(OperatorDefs[j].name) = stream[4 * k + 1] => OperatorDefs[j].op = cur.ops[k]

\* A failing check of a / b <= c has rendered both operators.
C5_Witness ==
    /\ pc = "rendered"
    /\ cur.ops = << "/", "<=" >>
    /\ stream[5] = "/"
    /\ stream[9] = "<="

\* C6: a single-operator check prints a diagnostic exactly when the plain
\* expression converts to false.
C6_PrintsIffPlainFalse ==
    /\ (pc = "end" /\ Len(cur.ops) = 1) => ((stdout # outAtBegin) <=> ~PlainTrue(cur))
    /\ (Tested /\ Len(cur.ops) = 1) => ((result = "fail") <=> ~PlainTrue(cur))

\* C7: every captured operator is applied exactly once per execution: not before
\* the test, once by the test, and not again by the rendering; a passing check
\* renders nothing.
C7_AppliedExactlyOnce ==
    /\ pc \in {"build", "operator", "copied", "test"} =>
          \A k \in DOMAIN applied : applied[k] = 0
    /\ Tested => \A k \in DOMAIN applied : applied[k] = 1
    /\ (pc = "end" /\ result = "pass") => stream = <<>>

\* A failing check with two captured operators has been rendered and reported.
C7_Witness ==
    /\ pc = "end"
    /\ result = "fail"
    /\ applied = << 1, 1 >>
    /\ stream # <<>>

\* C8: whenever a stored reference is read, the object it refers to is alive.
C8_ReferentsAlive == deadReads = {}

\* C9: when both operators of a op1 b op2 c are captured, the check fails
\* exactly when the plain expression is false.
C9_NestedOutcomeIsPlainTruth ==
    (Tested /\ CapturesBoth(cur)) => ((result = "fail") <=> ~PlainTrue(cur))

\* The line numbers of the completed statements whose plain expression was false.
RECURSIVE FailingLines(_, _)
FailingLines(h, n) ==
    IF h = <<>> THEN <<>>
    ELSE (IF Head(h) THEN << ToString(n) >> ELSE <<>>) \o FailingLines(Tail(h), n + 1)

\* C10: every check of the sequence is executed, and std::cout holds one line per
\* failing check, in order, each with the line number of its check.
C10_OneLinePerFailingCheck ==
    /\ pc # "crashed"
    /\ pc = "next" => [i \in DOMAIN stdout |-> stdout[i][6]] = FailingLines(hist, FirstLine)

====
